---- MODULE Spec2Model ----
(***************************************************************************)
(* Model of server.js: the lucky-draw redemption service.                  *)
(*                                                                         *)
(* The process starts up (credential check, store client, listen), then    *)
(* serves POST /check-order-number, POST /record-draw-result and           *)
(* GET /keep-alive.  Each handler is an async function: it runs until its  *)
(* next `await`, and every awaited store round trip is one atomic step of  *)
(* the store followed by the handler's continuation up to the next await   *)
(* (or to its response).  Handlers of different requests interleave at     *)
(* the awaits.                                                             *)
(***************************************************************************)
EXTENDS Integers, Sequences, FiniteSets, TLC

\* Number of HTTP requests that arrive during a run.
MaxRequests == 2

\* Order numbers (document ids and values of the 'orderNumber' field).
OrderNumbers == {"A100", "A200"}

\* Draw results a caller may send.
DrawResults == {"PRIZE1", "PRIZE2"}

\* A body field that is absent or falsy (undefined, null, ""): `!x` is true.
Missing == "<missing>"

\* HTTP status codes used by the handlers.
StatusOK == 200
StatusBadRequest == 400
StatusNotFound == 404
StatusInternalError == 500

Requests == 1..MaxRequests

VARIABLES
  env,           \* process.env.FIREBASE_SERVICE_ACCOUNT_KEY is set
  server,        \* "starting" | "exited" | "listening"
  db,            \* the store client has been initialised
  orderNumbers,  \* collection 'orderNumbers': document id -> document
  drawResults,   \* collection 'drawResults': document id -> document
  now,           \* the store's clock, source of serverTimestamp()
  body,          \* per request: route and req.body
  pc,            \* per request: where its handler is suspended
  ops,           \* per request: the store round trips it made, in order
  responses      \* per request: the responses sent on `res`, in order

vars == <<env, server, db, orderNumbers, drawResults, now, body, pc, ops, responses>>

store == <<orderNumbers, drawResults>>

----------------------------------------------------------------------------
(* Documents *)

NoOrder == [exists |-> FALSE, orderNumber |-> Missing, hasPlayed |-> FALSE,
            drawResult |-> Missing]

NoDrawResult == [exists |-> FALSE, orderNumber |-> Missing, drawResult |-> Missing,
                 timestamp |-> 0]

\* An order document as the out-of-band loader writes it: not played yet.
SeededOrder(field) == [exists |-> TRUE, orderNumber |-> field, hasPlayed |-> FALSE,
                       drawResult |-> Missing]

\* Firestore returns query results ordered by document id.
KeyRank == "A100" :> 1 @@ "A200" :> 2

NoBody == [kind |-> "none", orderNumber |-> Missing, drawResult |-> Missing]

Response(status, success, text) == [status |-> status, success |-> success, text |-> text]

----------------------------------------------------------------------------
(* Store operations *)

\* Faulty variant of Where: matches on the document id instead of the field.
WhereById(coll, o) == {k \in DOMAIN coll : coll[k].exists /\ k = o}

\* db.collection('orderNumbers').where('orderNumber', '==', o).get(): the ids
\* of the matching documents.
Where(coll, o) == {k \in DOMAIN coll : coll[k].exists /\ coll[k].orderNumber = o}

\* querySnapshot.docs[0]
FirstDoc(ids) == CHOOSE k \in ids : \A j \in ids : KeyRank[k] <= KeyRank[j]

\* Faulty variant of Update: the draw result is stored but hasPlayed is not set.
UpdateResultOnly(coll, k, r) == [coll EXCEPT ![k].drawResult = r]

\* Faulty variant of Update: the documents to update are found by their
\* orderNumber field instead of their id.
UpdateByField(coll, k, r) ==
  [j \in DOMAIN coll |->
     IF coll[j].exists /\ coll[j].orderNumber = k
       THEN [coll[j] EXCEPT !.hasPlayed = TRUE, !.drawResult = r]
       ELSE coll[j]]

\* docRef.update({hasPlayed: true, drawResult}): merges into an existing document.
Update(coll, k, r) == [coll EXCEPT ![k].hasPlayed = TRUE, ![k].drawResult = r]

\* drawResultRef.set({orderNumber, drawResult, timestamp}): creates or overwrites.
Set(coll, k, r, ts) ==
  [coll EXCEPT ![k] = [exists |-> TRUE, orderNumber |-> k, drawResult |-> r,
                       timestamp |-> ts]]

Log(p, op, ok) == ops' = [ops EXCEPT ![p] = Append(@, <<op, ok>>)]

Send(p, r) == /\ responses' = [responses EXCEPT ![p] = Append(@, r)]
              /\ pc' = [pc EXCEPT ![p] = "done"]

----------------------------------------------------------------------------
(* Initial state: the process has not started; the store holds the seeded   *)
(* order documents (each order number in at most one document, whose id may *)
(* or may not be the order number) and no draw results.                     *)

SeededStores ==
  {s \in [OrderNumbers -> {NoOrder} \cup {SeededOrder(f) : f \in OrderNumbers}] :
     \A j, k \in OrderNumbers :
        (j # k /\ s[j].exists /\ s[k].exists) => s[j].orderNumber # s[k].orderNumber}

Init ==
  /\ env \in BOOLEAN
  /\ server = "starting"
  /\ db = FALSE
  /\ orderNumbers \in SeededStores
  /\ drawResults = [k \in OrderNumbers |-> NoDrawResult]
  /\ now = 1
  /\ body = [p \in Requests |-> NoBody]
  /\ pc = [p \in Requests |-> "idle"]
  /\ ops = [p \in Requests |-> <<>>]
  /\ responses = [p \in Requests |-> <<>>]

----------------------------------------------------------------------------
(* Startup *)

\* The credential is absent: process.exit(1).
StartupExit ==
  /\ server = "starting"
  /\ ~env
  /\ server' = "exited"
  /\ UNCHANGED <<env, db, orderNumbers, drawResults, now, body, pc, ops, responses>>

\* Faulty variant of StartupListen: startup goes on without the credential check.
StartupListenUnchecked ==
  /\ server = "starting"
  /\ db' = TRUE
  /\ server' = "listening"
  /\ UNCHANGED <<env, orderNumbers, drawResults, now, body, pc, ops, responses>>

\* The credential is present: initialise the store client and listen.
StartupListen ==
  /\ server = "starting"
  /\ env
  /\ db' = TRUE
  /\ server' = "listening"
  /\ UNCHANGED <<env, orderNumbers, drawResults, now, body, pc, ops, responses>>

\* Request p arrives: requests are numbered in their order of arrival.
Arrives(p) ==
  /\ server = "listening"
  /\ pc[p] = "idle"
  /\ \A q \in Requests : q < p => pc[q] # "idle"

----------------------------------------------------------------------------
(* POST /check-order-number *)

\* The handler up to its first await.
CheckOrderNumber(p, orderNumber) ==
  /\ Arrives(p)
  /\ body' = [body EXCEPT ![p] = [kind |-> "check", orderNumber |-> orderNumber,
                                  drawResult |-> Missing]]
  /\ IF orderNumber = Missing
       THEN Send(p, Response(StatusBadRequest, FALSE, "Order number is required."))
       ELSE /\ pc' = [pc EXCEPT ![p] = "query"]
            /\ UNCHANGED responses
  /\ UNCHANGED <<env, server, db, orderNumbers, drawResults, now, ops>>

\* Faulty variant of CheckQueryReturns: a valid order is marked played by the check.
CheckQueryReturnsConsumes(p) ==
  /\ pc[p] = "query"
  /\ Log(p, "query", TRUE)
  /\ LET querySnapshot == Where(orderNumbers, body[p].orderNumber)
     IN IF querySnapshot = {}
          THEN /\ Send(p, Response(StatusNotFound, FALSE, "Please input a qualified order number."))
               /\ UNCHANGED orderNumbers
          ELSE LET orderData == orderNumbers[FirstDoc(querySnapshot)]
               IN IF orderData.hasPlayed
                    THEN /\ Send(p, Response(StatusBadRequest, FALSE, "You have used your chance."))
                         /\ UNCHANGED orderNumbers
                    ELSE /\ Send(p, Response(StatusOK, TRUE, "Order number is valid."))
                         /\ orderNumbers' = [orderNumbers EXCEPT
                                               ![FirstDoc(querySnapshot)].hasPlayed = TRUE]
  /\ UNCHANGED <<env, server, db, drawResults, now, body>>

\* The query is answered; the handler runs to its response.
CheckQueryReturns(p) ==
  /\ pc[p] = "query"
  /\ Log(p, "query", TRUE)
  /\ LET querySnapshot == Where(orderNumbers, body[p].orderNumber)
     IN IF querySnapshot = {}
          THEN Send(p, Response(StatusNotFound, FALSE, "Please input a qualified order number."))
          ELSE LET orderData == orderNumbers[FirstDoc(querySnapshot)]
               IN IF orderData.hasPlayed
                    THEN Send(p, Response(StatusBadRequest, FALSE, "You have used your chance."))
                    ELSE Send(p, Response(StatusOK, TRUE, "Order number is valid."))
  /\ UNCHANGED <<env, server, db, orderNumbers, drawResults, now, body>>

\* Faulty variant of CheckQueryFails: the catch block logs the error and sends nothing.
CheckQueryFailsSilently(p) ==
  /\ pc[p] = "query"
  /\ Log(p, "query", FALSE)
  /\ pc' = [pc EXCEPT ![p] = "failed"]
  /\ UNCHANGED <<env, server, db, orderNumbers, drawResults, now, body, responses>>

\* The query throws: the catch block answers 500.
CheckQueryFails(p) ==
  /\ pc[p] = "query"
  /\ Log(p, "query", FALSE)
  /\ Send(p, Response(StatusInternalError, FALSE, "error.message"))
  /\ UNCHANGED <<env, server, db, orderNumbers, drawResults, now, body>>

----------------------------------------------------------------------------
(* POST /record-draw-result *)

\* Faulty variant of RecordDrawResult: only orderNumber is required.
RecordDrawResultOrderOnly(p, orderNumber, drawResult) ==
  /\ Arrives(p)
  /\ body' = [body EXCEPT ![p] = [kind |-> "record", orderNumber |-> orderNumber,
                                  drawResult |-> drawResult]]
  /\ IF orderNumber = Missing
       THEN Send(p, Response(StatusBadRequest, FALSE, "Order number and draw result are required."))
       ELSE /\ pc' = [pc EXCEPT ![p] = "get"]
            /\ UNCHANGED responses
  /\ UNCHANGED <<env, server, db, orderNumbers, drawResults, now, ops>>

\* The handler up to its first await.
RecordDrawResult(p, orderNumber, drawResult) ==
  /\ Arrives(p)
  /\ body' = [body EXCEPT ![p] = [kind |-> "record", orderNumber |-> orderNumber,
                                  drawResult |-> drawResult]]
  /\ IF orderNumber = Missing \/ drawResult = Missing
       THEN Send(p, Response(StatusBadRequest, FALSE, "Order number and draw result are required."))
       ELSE /\ pc' = [pc EXCEPT ![p] = "get"]
            /\ UNCHANGED responses
  /\ UNCHANGED <<env, server, db, orderNumbers, drawResults, now, ops>>

\* Faulty variant of RecordGetReturns: hasPlayed is not checked.
RecordGetReturnsUnchecked(p) ==
  /\ pc[p] = "get"
  /\ Log(p, "get", TRUE)
  /\ LET docSnapshot == orderNumbers[body[p].orderNumber]
     IN IF ~docSnapshot.exists
          THEN Send(p, Response(StatusNotFound, FALSE, "Order number does not exist."))
          ELSE /\ pc' = [pc EXCEPT ![p] = "update"]
               /\ UNCHANGED responses
  /\ UNCHANGED <<env, server, db, orderNumbers, drawResults, now, body>>

\* Variant of RecordGetReturns with an in-process guard per order number: a
\* request is refused while another one on the same order is between its check
\* and its writes.
RecordGetReturnsGuarded(p) ==
  /\ pc[p] = "get"
  /\ Log(p, "get", TRUE)
  /\ LET docSnapshot == orderNumbers[body[p].orderNumber]
         busy == \E q \in DOMAIN pc \ {p} :
                    /\ body[q].kind = "record"
                    /\ body[q].orderNumber = body[p].orderNumber
                    /\ pc[q] \in {"update", "set"}
     IN IF ~docSnapshot.exists
          THEN Send(p, Response(StatusNotFound, FALSE, "Order number does not exist."))
          ELSE IF docSnapshot.hasPlayed \/ busy
                 THEN Send(p, Response(StatusBadRequest, FALSE, "You have already used your chance."))
                 ELSE /\ pc' = [pc EXCEPT ![p] = "update"]
                      /\ UNCHANGED responses
  /\ UNCHANGED <<env, server, db, orderNumbers, drawResults, now, body>>

\* Faulty variant of RecordGetReturns: the draw result is written without the
\* order having been updated.
RecordGetReturnsSkipsUpdate(p) ==
  /\ pc[p] = "get"
  /\ Log(p, "get", TRUE)
  /\ LET docSnapshot == orderNumbers[body[p].orderNumber]
     IN IF ~docSnapshot.exists
          THEN Send(p, Response(StatusNotFound, FALSE, "Order number does not exist."))
          ELSE IF docSnapshot.hasPlayed
                 THEN Send(p, Response(StatusBadRequest, FALSE, "You have already used your chance."))
                 ELSE /\ pc' = [pc EXCEPT ![p] = "set"]
                      /\ UNCHANGED responses
  /\ UNCHANGED <<env, server, db, orderNumbers, drawResults, now, body>>

\* docRef.get() is answered; the handler runs to a response or to the update.
RecordGetReturns(p) ==
  /\ pc[p] = "get"
  /\ Log(p, "get", TRUE)
  /\ LET docSnapshot == orderNumbers[body[p].orderNumber]
     IN IF ~docSnapshot.exists
          THEN Send(p, Response(StatusNotFound, FALSE, "Order number does not exist."))
          ELSE IF docSnapshot.hasPlayed
                 THEN Send(p, Response(StatusBadRequest, FALSE, "You have already used your chance."))
                 ELSE /\ pc' = [pc EXCEPT ![p] = "update"]
                      /\ UNCHANGED responses
  /\ UNCHANGED <<env, server, db, orderNumbers, drawResults, now, body>>

RecordGetFails(p) ==
  /\ pc[p] = "get"
  /\ Log(p, "get", FALSE)
  /\ Send(p, Response(StatusInternalError, FALSE, "error.message"))
  /\ UNCHANGED <<env, server, db, orderNumbers, drawResults, now, body>>

\* Faulty variant of RecordUpdateReturns: the set is not awaited and the success
\* response is sent as soon as the update is applied.
RecordUpdateReturnsAnswersEarly(p) ==
  /\ pc[p] = "update"
  /\ orderNumbers[body[p].orderNumber].exists
  /\ Log(p, "update", TRUE)
  /\ orderNumbers' = Update(orderNumbers, body[p].orderNumber, body[p].drawResult)
  /\ Send(p, Response(StatusOK, TRUE, "Draw result recorded successfully."))
  /\ UNCHANGED <<env, server, db, drawResults, now, body>>

\* docRef.update() is applied; the handler goes on to the set.
RecordUpdateReturns(p) ==
  /\ pc[p] = "update"
  /\ orderNumbers[body[p].orderNumber].exists
  /\ Log(p, "update", TRUE)
  /\ orderNumbers' = Update(orderNumbers, body[p].orderNumber, body[p].drawResult)
  /\ pc' = [pc EXCEPT ![p] = "set"]
  /\ UNCHANGED <<env, server, db, drawResults, now, body, responses>>

\* Faulty variant of RecordUpdateFails: the error is swallowed and the handler
\* goes on to the set.
RecordUpdateFailsContinues(p) ==
  /\ pc[p] = "update"
  /\ Log(p, "update", FALSE)
  /\ pc' = [pc EXCEPT ![p] = "set"]
  /\ UNCHANGED <<env, server, db, orderNumbers, drawResults, now, body, responses>>

RecordUpdateFails(p) ==
  /\ pc[p] = "update"
  /\ Log(p, "update", FALSE)
  /\ Send(p, Response(StatusInternalError, FALSE, "error.message"))
  /\ UNCHANGED <<env, server, db, orderNumbers, drawResults, now, body>>

\* drawResultRef.set() is applied; the handler sends the success response.
RecordSetReturns(p) ==
  /\ pc[p] = "set"
  /\ Log(p, "set", TRUE)
  /\ drawResults' = Set(drawResults, body[p].orderNumber, body[p].drawResult, now)
  /\ now' = now + 1
  /\ Send(p, Response(StatusOK, TRUE, "Draw result recorded successfully."))
  /\ UNCHANGED <<env, server, db, orderNumbers, body>>

RecordSetFails(p) ==
  /\ pc[p] = "set"
  /\ Log(p, "set", FALSE)
  /\ Send(p, Response(StatusInternalError, FALSE, "error.message"))
  /\ UNCHANGED <<env, server, db, orderNumbers, drawResults, now, body>>

----------------------------------------------------------------------------
(* GET /keep-alive *)

KeepAlive(p) ==
  /\ Arrives(p)
  /\ body' = [body EXCEPT ![p] = [kind |-> "keep-alive", orderNumber |-> Missing,
                                  drawResult |-> Missing]]
  /\ Send(p, Response(StatusOK, TRUE, "Server is alive"))
  /\ UNCHANGED <<env, server, db, orderNumbers, drawResults, now, ops>>

----------------------------------------------------------------------------

Next ==
  \/ StartupExit
  \/ StartupListen
  \/ \E p \in Requests :
       \/ \E o \in OrderNumbers \cup {Missing} : CheckOrderNumber(p, o)
       \/ CheckQueryReturns(p)
       \/ CheckQueryFails(p)
       \/ \E o \in OrderNumbers \cup {Missing}, r \in DrawResults \cup {Missing} :
            RecordDrawResult(p, o, r)
       \/ RecordGetReturns(p)
       \/ RecordGetFails(p)
       \/ RecordUpdateReturns(p)
       \/ RecordUpdateFails(p)
       \/ RecordSetReturns(p)
       \/ RecordSetFails(p)
       \/ KeepAlive(p)

Spec == Init /\ [][Next]_vars

----------------------------------------------------------------------------
(* Vocabulary of the properties *)

IsRecord(p) == body[p].kind = "record"
IsCheck(p) == body[p].kind = "check"

Answered(p) == responses[p] # <<>>
Succeeded(p) == Answered(p) /\ responses[p][1].status = StatusOK /\ responses[p][1].success

\* The 400 of an order number that has been used (not the 400 of a missing field).
AlreadyUsed(r) == r.status = StatusBadRequest /\ ~r.success /\
                  r.text \in {"You have used your chance.", "You have already used your chance."}

NotFound(r) == r.status = StatusNotFound /\ ~r.success

\* Every store round trip request p made was answered without error.
NoStoreFailure(p) == \A i \in 1..Len(ops[p]) : ops[p][i][2]

\* Request p's round trip `op` was applied by the store.
Applied(p, op) == \E i \in 1..Len(ops[p]) : ops[p][i] = <<op, TRUE>>

\* Request p sends a response in this step.
Answers(p) == ~Answered(p) /\ responses'[p] # <<>>

----------------------------------------------------------------------------
(* C1 -- concurrency.  For every order number and every interleaving of    *)
(* record requests on it, at most one of them gets the success response;   *)
(* every other one (that met no store failure) gets AlreadyUsed.           *)
(* The handler reads hasPlayed and writes it in separate round trips, so   *)
(* two requests both pass the check and both succeed.                      *)
C1_AtMostOneSuccess ==
  \A p, q \in Requests :
     ( /\ p # q
       /\ IsRecord(p) /\ IsRecord(q)
       /\ body[p].orderNumber = body[q].orderNumber
       /\ body[q].drawResult # Missing
       /\ Succeeded(p)
       /\ Answered(q) /\ NoStoreFailure(q) )
     => AlreadyUsed(responses[q][1])

(* C2 -- invariant.  In every reachable state, a DrawResultRecord exists   *)
(* for an order number exactly when the OrderRecord under that key has     *)
(* hasPlayed = true (the collection holds at most one document per key).   *)
(* Between the update and the set the order is played with no draw result. *)
C2_DrawResultIffPlayed ==
  \A o \in OrderNumbers :
     drawResults[o].exists <=> (orderNumbers[o].exists /\ orderNumbers[o].hasPlayed)

(* C3 -- safety.  When record(o, r) sends the success response, at that    *)
(* moment OrderRecord[o] has hasPlayed = true and drawResult = r, and      *)
(* DrawResultRecord[o] exists with drawResult = r.                         *)
C3_SuccessMeansRecorded ==
  [][\A p \in Requests :
       (IsRecord(p) /\ Answers(p) /\ responses'[p][1].success)
       => LET o == body[p].orderNumber
              r == body[p].drawResult
          IN /\ orderNumbers'[o].hasPlayed
             /\ orderNumbers'[o].drawResult = r
             /\ drawResults'[o].exists
             /\ drawResults'[o].drawResult = r]_vars

(* C4 -- error handling.  For every finished record request, whatever its  *)
(* response, either both its writes took effect or neither did.            *)
C4_WritesAreAtomicPair ==
  \A p \in Requests :
     (IsRecord(p) /\ pc[p] = "done") => (Applied(p, "update") <=> Applied(p, "set"))

(* C5 -- safety.  Once a DrawResultRecord exists, its drawResult and       *)
(* timestamp never change.                                                 *)
C5_DrawResultImmutable ==
  [][\A o \in OrderNumbers :
       drawResults[o].exists => drawResults'[o] = drawResults[o]]_vars

(* C6 -- temporal.  Every OrderRecord is written at most once: it is never *)
(* deleted, hasPlayed never goes back to false, and once played its        *)
(* drawResult never changes.                                               *)
C6_OrderWrittenOnce ==
  [][\A k \in OrderNumbers :
       orderNumbers[k].exists =>
          /\ orderNumbers'[k].exists
          /\ orderNumbers[k].hasPlayed => orderNumbers'[k] = orderNumbers[k]]_vars

(* C7 -- frame.  Every step of a check-order-number request, whatever its *)
(* input and outcome, leaves both collections as they were.                *)
C7_ValidateLeavesStoreUnchanged ==
  [][\A p \in Requests :
       (body'[p].kind = "check" /\ pc'[p] # pc[p]) => store' = store]_vars

\* A check request on a seeded, unplayed order has been answered with success.
C7_Witness ==
  \E p \in Requests :
     /\ IsCheck(p) /\ Succeeded(p) /\ ops[p] = <<<<"query", TRUE>>>>
     /\ \E k \in OrderNumbers : orderNumbers[k].exists /\ ~orderNumbers[k].hasPlayed

\* The OrderRecords that carry order number o.
RecordsOf(o) == {k \in OrderNumbers : orderNumbers[k].exists /\ orderNumbers[k].orderNumber = o}

(* C8 -- functional correctness.  When the query of validate(o), o         *)
(* non-empty, is answered without store failure, the response is NotFound  *)
(* if no OrderRecord carries order number o, AlreadyUsed if that record    *)
(* has hasPlayed = true, and success if it has hasPlayed = false.          *)
C8_ValidateOutcome ==
  [][\A p \in Requests :
       (IsCheck(p) /\ pc[p] = "query" /\ ops'[p] = <<<<"query", TRUE>>>>)
       => /\ Answers(p)
          /\ Len(responses'[p]) = 1
          /\ LET r == responses'[p][1]
                 recs == RecordsOf(body[p].orderNumber)
             IN /\ recs = {} => NotFound(r)
                /\ (recs # {} /\ \A k \in recs : orderNumbers[k].hasPlayed)
                     => AlreadyUsed(r)
                /\ (recs # {} /\ \A k \in recs : ~orderNumbers[k].hasPlayed)
                     => (r.status = StatusOK /\ r.success)]_vars

\* A check request has been answered AlreadyUsed for an order another request played.
C8_Witness ==
  \E p \in Requests :
     /\ IsCheck(p) /\ Answered(p) /\ AlreadyUsed(responses[p][1])
     /\ \E k \in RecordsOf(body[p].orderNumber) : orderNumbers[k].hasPlayed

\* The OrderRecord keyed by its order number o is present and played.
PlayedOrder(o) ==
  /\ o \in OrderNumbers
  /\ orderNumbers[o].exists
  /\ orderNumbers[o].orderNumber = o
  /\ orderNumbers[o].hasPlayed

MissingField(p) ==
  \/ IsCheck(p) /\ body[p].orderNumber = Missing
  \/ IsRecord(p) /\ (body[p].orderNumber = Missing \/ body[p].drawResult = Missing)

(* C10 -- error handling.  A validate without orderNumber, or a record     *)
(* without orderNumber or without drawResult, is answered 400 with         *)
(* success:false and makes no store round trip at all.                     *)
C10_MissingFieldRejected ==
  \A p \in Requests :
     MissingField(p) =>
        /\ pc[p] = "done"
        /\ Len(responses[p]) = 1
        /\ responses[p][1].status = StatusBadRequest
        /\ ~responses[p][1].success
        /\ ops[p] = <<>>

\* A record request that carries an order number but no draw result has been rejected.
C10_Witness ==
  \E p \in Requests :
     /\ IsRecord(p) /\ body[p].orderNumber # Missing /\ body[p].drawResult = Missing
     /\ pc[p] = "done" /\ responses[p][1].status = StatusBadRequest
     /\ orderNumbers[body[p].orderNumber].exists

(* C11 -- refinement.  validate and record agree on which order numbers    *)
(* exist: when validate(o) has returned success and a record(o, r) is the  *)
(* only record request issued, with no store failure, the record returns   *)
(* success -- also when the document id differs from the orderNumber       *)
(* field.  validate finds the document by its field, record by its id.     *)
C11_ValidateThenRecordSucceeds ==
  \A p, q \in Requests :
     ( /\ p < q
       /\ IsCheck(p) /\ Succeeded(p)
       /\ IsRecord(q) /\ body[q].orderNumber = body[p].orderNumber
       /\ body[q].drawResult # Missing
       /\ Answered(q) /\ NoStoreFailure(q)
       /\ \A x \in Requests \ {p, q} : ~IsRecord(x) )
     => Succeeded(q)

----------------------------------------------------------------------------
(* Requests handled one after another: a request arrives only when no      *)
(* other request is between its arrival and its response.                  *)

InFlight(p) == pc[p] \notin {"idle", "done"}

\* After the step at most one request is between its arrival and its response.
OneAtATime == Cardinality({p \in Requests : pc'[p] \notin {"idle", "done"}}) <= 1

NextSequential ==
  \/ StartupExit
  \/ StartupListen
  \/ \E p \in Requests :
       \/ \E o \in OrderNumbers \cup {Missing} : CheckOrderNumber(p, o) /\ OneAtATime
       \/ CheckQueryReturns(p)
       \/ CheckQueryFails(p)
       \/ \E o \in OrderNumbers \cup {Missing}, r \in DrawResults \cup {Missing} :
            RecordDrawResult(p, o, r) /\ OneAtATime
       \/ RecordGetReturns(p)
       \/ RecordGetFails(p)
       \/ RecordUpdateReturns(p)
       \/ RecordUpdateFails(p)
       \/ RecordSetReturns(p)
       \/ RecordSetFails(p)
       \/ KeepAlive(p)

SpecSequential == Init /\ [][NextSequential]_vars

\* The OrderRecord of order number o is stored under its own key.
KeyedOrder(o) ==
  /\ o \in OrderNumbers
  /\ orderNumbers[o].exists
  /\ orderNumbers[o].orderNumber = o

\* Some record request other than q has had its update of order o applied.
UpdatedByOther(q, o) ==
  \E p \in Requests \ {q} :
     IsRecord(p) /\ body[p].orderNumber = o /\ Applied(p, "update")

(* C12 -- sequential record requests.  When record requests are handled    *)
(* one after another and the store does not fail, the first request on a   *)
(* present, unplayed order number is answered with success, and every      *)
(* later one is answered AlreadyUsed and leaves both collections as they   *)
(* were.                                                                   *)
C12_SequentialRecords ==
  [][\A q \in Requests :
       LET o == body[q].orderNumber
       IN (IsRecord(q) /\ body[q].drawResult # Missing /\ KeyedOrder(o)
             /\ Answers(q) /\ \A i \in 1..Len(ops'[q]) : ops'[q][i][2])
          => IF UpdatedByOther(q, o)
               THEN AlreadyUsed(responses'[q][1]) /\ store' = store
               ELSE /\ responses'[q][1].status = StatusOK /\ responses'[q][1].success
                    /\ orderNumbers'[o].hasPlayed
                    /\ orderNumbers'[o].drawResult = body[q].drawResult
                    /\ drawResults'[o].exists
                    /\ drawResults'[o].drawResult = body[q].drawResult]_vars

\* A first record succeeded and a later one with another draw result was refused.
C12_Witness ==
  \E p, q \in Requests :
     /\ p < q
     /\ IsRecord(p) /\ IsRecord(q)
     /\ body[p].orderNumber = body[q].orderNumber
     /\ body[p].drawResult # body[q].drawResult
     /\ Succeeded(p)
     /\ Answered(q) /\ AlreadyUsed(responses[q][1])
     /\ drawResults[body[p].orderNumber].drawResult = body[p].drawResult
     /\ orderNumbers[body[p].orderNumber].drawResult = body[p].drawResult

(* C13 -- temporal.  A record request sends its success response only      *)
(* after its OrderRecord update and then its DrawResultRecord creation     *)
(* have both been applied: its round trips are get, update, set, in that   *)
(* order, all answered without error.                                      *)
C13_SuccessAfterBothWrites ==
  \A p \in Requests :
     (IsRecord(p) /\ Answered(p) /\ responses[p][1].success)
     => ops[p] = <<<<"get", TRUE>>, <<"update", TRUE>>, <<"set", TRUE>>>>

\* A record request has been answered with success and both documents are written.
C13_Witness ==
  \E p \in Requests :
     /\ IsRecord(p) /\ Succeeded(p)
     /\ orderNumbers[body[p].orderNumber].hasPlayed
     /\ drawResults[body[p].orderNumber].exists

(* C14 -- error handling.  A store failure at any round trip of a validate *)
(* or record request ends the request with a 500 response with            *)
(* success:false: the failed round trip is the request's last one and its  *)
(* only response is the 500.                                               *)
C14_StoreFailureIsTerminal ==
  \A p \in Requests :
     \A i \in 1..Len(ops[p]) :
        ~ops[p][i][2] =>
           /\ i = Len(ops[p])
           /\ pc[p] = "done"
           /\ Len(responses[p]) = 1
           /\ responses[p][1].status = StatusInternalError
           /\ ~responses[p][1].success

\* A record request whose set failed after its update was applied has been answered 500.
C14_Witness ==
  \E p \in Requests :
     /\ IsRecord(p)
     /\ ops[p] = <<<<"get", TRUE>>, <<"update", TRUE>>, <<"set", FALSE>>>>
     /\ responses[p][1].status = StatusInternalError

----------------------------------------------------------------------------
(* The store eventually answers or fails every operation sent to it, and   *)
(* the event loop then resumes the handler that awaits it.                 *)

StoreStep(p) ==
  \/ CheckQueryReturns(p)
  \/ CheckQueryFails(p)
  \/ RecordGetReturns(p)
  \/ RecordGetFails(p)
  \/ RecordUpdateReturns(p)
  \/ RecordUpdateFails(p)
  \/ RecordSetReturns(p)
  \/ RecordSetFails(p)

SpecFair == Spec /\ \A p \in Requests : WF_vars(StoreStep(p))

(* C15 -- termination.  Provided the store eventually answers or fails     *)
(* every operation, every request that has arrived eventually gets a       *)
(* response, and no request ever has more than one: a request has exactly  *)
(* one response when its handler has ended and none before.                *)
C15_ExactlyOneResponse ==
  /\ [](\A p \in Requests :
          /\ Len(responses[p]) <= 1
          /\ (pc[p] = "done") <=> (Len(responses[p]) = 1))
  /\ \A p \in Requests :
        (pc[p] # "idle") ~> (pc[p] = "done" /\ Len(responses[p]) = 1)

\* Two overlapping record requests on one order have both been answered.
C15_Witness ==
  \E p, q \in Requests :
     /\ p # q
     /\ IsRecord(p) /\ IsRecord(q) /\ body[p].orderNumber = body[q].orderNumber
     /\ Len(ops[p]) = 3 /\ Len(ops[q]) = 3
     /\ Len(responses[p]) = 1 /\ Len(responses[q]) = 1

(* C16 -- startup.  When the credential is absent the process exits: the   *)
(* store client is never initialised, the server never listens, no request *)
(* is ever handled and no store operation is ever performed.               *)
C16_NoCredentialNoService ==
  ~env =>
     /\ server \in {"starting", "exited"}
     /\ ~db
     /\ \A p \in Requests :
          pc[p] = "idle" /\ body[p] = NoBody /\ ops[p] = <<>> /\ responses[p] = <<>>
     /\ \A k \in OrderNumbers : ~orderNumbers[k].hasPlayed /\ ~drawResults[k].exists

\* The process has exited for lack of the credential, with orders waiting in the store.
C16_Witness ==
  /\ ~env
  /\ server = "exited"
  /\ \E k \in OrderNumbers : orderNumbers[k].exists

\* Request p has read hasPlayed = false and passed the check, and has not written yet.
PassedCheck(p) == IsRecord(p) /\ pc[p] = "update" /\ ops[p] = <<<<"get", TRUE>>>>

(* C17 -- concurrency.  Nothing keeps a second record request from passing *)
(* the check while a first one is between its check and its write: when    *)
(* one request on an order has passed the check and not yet written, the   *)
(* answered read of another request on the same order passes it too, so    *)
(* that both are past the check with neither write made.                   *)
C17_BothPassTheCheck ==
  [][\A p, q \in Requests :
       ( /\ p # q
         /\ PassedCheck(p)
         /\ IsRecord(q) /\ body[q].orderNumber = body[p].orderNumber
         /\ pc[q] = "get" /\ ops'[q] = <<<<"get", TRUE>>>>
         /\ ~orderNumbers[body[p].orderNumber].hasPlayed )
       => /\ pc'[q] = "update"
          /\ pc'[p] = "update"
          /\ ~orderNumbers'[body[p].orderNumber].hasPlayed]_vars

\* Two record requests on one present, unplayed order are both past the check
\* and neither has written.
C17_Witness ==
  \E p, q \in Requests :
     /\ p # q
     /\ PassedCheck(p) /\ PassedCheck(q)
     /\ body[p].orderNumber = body[q].orderNumber
     /\ orderNumbers[body[p].orderNumber].exists
     /\ ~orderNumbers[body[p].orderNumber].hasPlayed
     /\ ~drawResults[body[p].orderNumber].exists

(* C18 -- invariant.  Starting from a store with no DrawResultRecords, in  *)
(* every reachable state a DrawResultRecord exists for an order number     *)
(* only if the OrderRecord under the same key exists and has               *)
(* hasPlayed = true: the update precedes the set.                          *)
C18_DrawResultImpliesPlayed ==
  \A o \in OrderNumbers :
     drawResults[o].exists => (orderNumbers[o].exists /\ orderNumbers[o].hasPlayed)

\* A DrawResultRecord has been created.
C18_Witness ==
  \E o \in OrderNumbers :
     /\ drawResults[o].exists
     /\ \E p \in Requests : IsRecord(p) /\ body[p].orderNumber = o /\ Applied(p, "set")

(* C19 -- frame.  A record request on order number o reads and writes only *)
(* the documents keyed by o: its steps leave the OrderRecord and the       *)
(* DrawResultRecord of every other key as they were, and the outcome of    *)
(* its read depends on the OrderRecord keyed by o alone.                   *)
C19_RecordTouchesOnlyItsKey ==
  [][\A p \in Requests :
       (body'[p].kind = "record" /\ pc'[p] # pc[p])
       => LET o == body'[p].orderNumber
          IN /\ \A k \in OrderNumbers \ {o} :
                  orderNumbers'[k] = orderNumbers[k] /\ drawResults'[k] = drawResults[k]
             /\ (pc[p] = "get" /\ ops'[p] = <<<<"get", TRUE>>>>)
                  => /\ (pc'[p] = "update")
                          <=> (orderNumbers[o].exists /\ ~orderNumbers[o].hasPlayed)
                     /\ (Answers(p) /\ NotFound(responses'[p][1]))
                          <=> ~orderNumbers[o].exists]_vars

\* A record request has written both documents of its key while another key's
\* order stays unplayed.
C19_Witness ==
  \E p \in Requests :
     /\ IsRecord(p) /\ Succeeded(p)
     /\ \E k \in OrderNumbers \ {body[p].orderNumber} :
          orderNumbers[k].exists /\ ~orderNumbers[k].hasPlayed /\ ~drawResults[k].exists

====
